---- MODULE Spec2Model ----
(***************************************************************************)
(* Model of the demo-gallery single-page application.                      *)
(*                                                                         *)
(*  - KafkaDemo.jsx : the streaming-demo control panel (status poll,       *)
(*    start / stop / fault update) together with the remote kafka-demo     *)
(*    service it talks to (API described in the Kafka demo notes).         *)
(*  - Home.jsx      : the gallery screen (file selection, upload batch).   *)
(*                                                                         *)
(* Every JavaScript task (an event handler up to its first await, or the   *)
(* continuation that runs when an awaited response arrives) is one atomic  *)
(* action.  Requests in flight are explicit, the server answers them in    *)
(* any order and the answers arrive in any order.                          *)
(***************************************************************************)
EXTENDS Integers, Sequences, FiniteSets, Bags, TLC

\* ------------------------------------------------------------------ bounds
MaxInflight == 2     \* requests of the panel in flight at once
MaxBatch == 2        \* files of a selection that is uploaded
MaxUploads == 1      \* upload batches the user runs
MaxGenerations == 1  \* single-shot generations in flight at once
MaxLoads == 2        \* image-list requests in flight at once
MaxChat == 3         \* turns of the chat history before a send
MaxDeletes == 2      \* delete requests in flight at once

\* ------------------------------------------------------- program constants
MaxFiles == 10           \* if (files.length > 10)

\* =========================================================================
\*                    KafkaDemo.jsx : streaming-demo panel
\* =========================================================================
VARIABLES
    phase,        \* "new" (constructed, effect not yet run), "mounted", "unmounted"
    status,       \* useState(null)
    isLoading,    \* useState(false)
    lastUpdated,  \* useState(null), else the time stamp of the last good poll
    faultConfig,  \* useState({latency_ms:0, ...})
    inflight,     \* bag of the requests sent and not yet delivered back
    srv,          \* state of the remote kafka-demo service
    lastArrived   \* payload of the most recently arrived successful poll/start response

kafkaVars == <<phase, status, isLoading, lastUpdated, faultConfig, inflight,
               srv, lastArrived>>

\* useAppToaster: titles of the notifications created by the last task
VARIABLE toast

\* datadogRum.addAction / addError: the reports made by the last task
VARIABLE telemetry

\* =========================================================================
\*                       Home.jsx : gallery screen
\* =========================================================================
VARIABLES
    selectedFiles,       \* useState([])
    isSelected,          \* useState(false)
    homeIsLoading,       \* Home's useState(false) isLoading: an upload batch runs
    isUploadSuccessful,  \* useState(false): refresh trigger
    fileUploadKey,       \* useState(0)
    prompt,              \* useState("")
    isGenerating,        \* useState(false)
    upload,              \* the running onFileUpload call, or Idle
    gens,                \* bag of the running handleGenerateAndUpload calls
    picked               \* the selection event the last task handled, if it was one

homeVars == <<selectedFiles, isSelected, homeIsLoading, isUploadSuccessful,
              fileUploadKey, prompt, isGenerating, upload, gens, picked>>

\* Home.jsx : the image list of the gallery screen
VARIABLES
    allImages,           \* useState([])
    isLoadingImages,     \* useState(false)
    deletingImageId,     \* useState(null)
    isDeleteSuccessful,  \* useState(false): refresh trigger
    expandedDropdowns,   \* useState({})
    effectDeps,          \* dependency values of the last run of the loadImages effect
    loads,               \* bag of the getImages requests in flight, each its backend
    deletes,             \* bag of the running onFileDelete calls
    stored,              \* the images the image service holds, by backend
    isDevelopment,       \* import.meta.env.VITE_ENVIRONMENT === 'dev'
    activeBackend,       \* useEnvContext(): the backend selection
    localStorage,        \* the value under the key "activeBackend"
    lastSelected,        \* the backend button pressed last in this visit, if any
    errorRun             \* what the last onSendError call did, in program order

galleryVars == <<allImages, isLoadingImages, deletingImageId, isDeleteSuccessful,
                 expandedDropdowns, effectDeps, loads, deletes, stored, isDevelopment,
                 activeBackend, localStorage, lastSelected, errorRun>>

\* ImageChat.jsx : chat client
VARIABLES
    messages,            \* useState([]): the turns of the conversation
    chatPrompt,          \* useState("")
    chatIsLoading,       \* ImageChat's useState(false) isLoading
    selectedModel,       \* useState("gemini-3-pro-image-preview")
    resolution,          \* useState("1024x1024")
    sends                \* bag of the running handleSendMessage calls

chatVars == <<messages, chatPrompt, chatIsLoading, selectedModel, resolution, sends>>

vars == <<kafkaVars, homeVars, galleryVars, chatVars, toast, telemetry>>

FaultFields == {"latency_ms", "drop_probability", "duplicate_ratio", "slow_consumer_ms"}

\* values a slider is moved to in the model
SliderVals(field) == IF field = "latency_ms" THEN {0, 250} ELSE {0}

InitialFaultConfig ==
    [latency_ms |-> 0, drop_probability |-> 0, duplicate_ratio |-> 0, slow_consumer_ms |-> 0]

FaultProfiles ==
    { [latency_ms |-> l, drop_probability |-> d, duplicate_ratio |-> u, slow_consumer_ms |-> s] :
        l \in SliderVals("latency_ms"), d \in SliderVals("drop_probability"),
        u \in SliderVals("duplicate_ratio"), s \in SliderVals("slow_consumer_ms") }

\* status === null is the record with isNull = TRUE
NullStatus == [isNull |-> TRUE, running |-> FALSE, fault |-> InitialFaultConfig]

StatusObject(running, fault) == [isNull |-> FALSE, running |-> running, fault |-> fault]

\* status?.running
StatusRunning == (~status.isNull) /\ status.running

\* new Date(): a time stamp other than the one held
Now == IF lastUpdated = "t1" THEN "t2" ELSE "t1"

NoBody == [none |-> TRUE]

\* a request in flight.  owner: the code that awaits it ("timer" for the
\* mount effect and the interval); shown: for POST /stop, whether the panel
\* displayed RUNNING when the user pressed Stop (history, no code reads it)
Request(kind, owner, body) ==
    [kind |-> kind, owner |-> owner, body |-> body, state |-> "pending",
     data |-> NullStatus, shown |-> FALSE]

StopRequest == [Request("stop", "stop", NoBody) EXCEPT !.shown = StatusRunning]

\* a state setter called on an unmounted component is a no-op
SetState(old, new) == IF phase = "mounted" THEN new ELSE old

Send(bag, r) == bag (+) SetToBag({r})

Take(bag, r) == bag (-) SetToBag({r})

InFlight == BagToSet(inflight)

\* room for one more request within the bound
Room == BagCardinality(inflight) < MaxInflight

\* ------------------------------------------------------------------------
\* Button of the component library.  The repository's other buttons pass
\* `loading` and `disabled` (Home.jsx upload button, ImageChat.jsx send
\* button): those are the props the Button reads; any other prop is inert.
ButtonDisabled(props) ==
    \/ ("loading" \in DOMAIN props) /\ props["loading"]
    \/ ("disabled" \in DOMAIN props) /\ props["disabled"]

\* <Button onClick={handleStart} isLoading={isLoading} isDisabled={status?.running}>
StartButtonProps == [isLoading |-> isLoading, isDisabled |-> StatusRunning]

\* <Button onClick={handleStop} isLoading={isLoading} isDisabled={!status?.running}>
StopButtonProps == [isLoading |-> isLoading, isDisabled |-> ~StatusRunning]

\* <Button onClick={updateFaults} isLoading={isLoading}>
ApplyButtonProps == [isLoading |-> isLoading]

\* ------------------------------------------------------------------------
\* (mutant) fetchStatus reads the isLoading of the current render
FetchStatusIsLoading_Live == isLoading

\* fetchStatus is memoized with an empty dependency list: the isLoading it
\* reads is the one of the first render, useState(false).
FetchStatusIsLoading == FALSE

\* (mutant) fetchStatus does not copy the fault profile of the response
FetchStatusOk_KeepsFault(data) ==
    [status      |-> data,
     lastUpdated |-> Now,
     faultConfig |-> faultConfig,
     toast       |-> <<>>,
     threw       |-> FALSE]

\* fetchStatus, response ok: what the three setters receive
FetchStatusOk(data) ==
    [status      |-> data,
     lastUpdated |-> Now,
     faultConfig |-> IF ~FetchStatusIsLoading THEN data.fault ELSE faultConfig,
     toast       |-> <<>>,
     threw       |-> FALSE]

\* (mutant) the catch block of fetchStatus rethrows
FetchStatusFailed_Rethrows ==
    [status      |-> status,
     lastUpdated |-> lastUpdated,
     faultConfig |-> faultConfig,
     toast       |-> <<>>,
     threw       |-> TRUE]

\* fetchStatus, network error or !response.ok: caught, logged to the console
FetchStatusFailed ==
    [status      |-> status,
     lastUpdated |-> lastUpdated,
     faultConfig |-> faultConfig,
     toast       |-> <<>>,
     threw       |-> FALSE]

FetchStatusResult(r, ok) == IF ok THEN FetchStatusOk(r.data) ELSE FetchStatusFailed

\* body of POST /start
StartBody == [rate_per_sec |-> 5, scenario |-> "f1", topic_prefix |-> "f1", fault |-> faultConfig]

\* body of POST /fault
FaultBody == [fault |-> faultConfig]

\* (mutant) handleStart does not adopt the returned status
HandleStartOk_KeepsStatus(data) == [status |-> status, toast |-> <<"Demo Started">>]

\* handleStart after the response: try / catch
HandleStartOk(data) == [status |-> data, toast |-> <<"Demo Started">>]

HandleStartFailed == [status |-> status, toast |-> <<"Error Starting Demo">>]

\* ------------------------------------------------------------------------
\* the remote service
ServerStatus(s) == StatusObject(s.running, s.fault)

ServerApply(s, r) ==
    CASE r.kind = "start" -> IF s.running THEN s ELSE [running |-> TRUE, fault |-> r.body.fault]
      [] r.kind = "stop"  -> [s EXCEPT !.running = FALSE]
      [] r.kind = "fault" -> [s EXCEPT !.fault = r.body.fault]
      [] OTHER            -> s

\* the JSON the client reads from a 2xx response; the body of /stop is not read
ServerReply(s, r) == IF r.kind = "stop" THEN NullStatus ELSE ServerStatus(s)

\* ------------------------------------------------------------------------
KafkaInit ==
    /\ phase = "new"
    /\ status = NullStatus
    /\ isLoading = FALSE
    /\ lastUpdated = "null"
    /\ faultConfig = InitialFaultConfig
    /\ inflight = EmptyBag
    /\ srv \in [running : BOOLEAN, fault : FaultProfiles]
    /\ lastArrived = NullStatus

TimerPoll == Request("status", "timer", NoBody)

\* useEffect: fetchStatus(); setInterval(fetchStatus, 3000)
Mount ==
    /\ phase = "new"
    /\ phase' = "mounted"
    /\ inflight' = Send(inflight, TimerPoll)
    /\ toast' = <<>>
    /\ telemetry' = <<>>
    /\ UNCHANGED <<homeVars, galleryVars, chatVars, status, isLoading, lastUpdated, faultConfig, srv, lastArrived>>

\* (mutant) the effect returns no cleanup: the interval outlives the panel
TickEnabled_NoCleanup == phase # "new"

\* the interval runs from the effect to its cleanup
TickEnabled == phase = "mounted"

Tick ==
    /\ TickEnabled
    /\ Room
    /\ inflight' = Send(inflight, TimerPoll)
    /\ toast' = <<>>
    /\ telemetry' = <<>>
    /\ UNCHANGED <<homeVars, galleryVars, chatVars, phase, status, isLoading, lastUpdated, faultConfig, srv, lastArrived>>

\* effect cleanup: clearInterval(interval)
Unmount ==
    /\ phase = "mounted"
    /\ phase' = "unmounted"
    /\ toast' = <<>>
    /\ telemetry' = <<>>
    /\ UNCHANGED <<homeVars, galleryVars, chatVars, status, isLoading, lastUpdated, faultConfig, inflight, srv, lastArrived>>

\* a slider is moved: setFaultConfig(c => ({...c, [field]: value}))
EditFault ==
    /\ phase = "mounted"
    /\ \E field \in FaultFields : \E v \in SliderVals(field) :
          /\ faultConfig[field] # v
          /\ faultConfig' = [faultConfig EXCEPT ![field] = v]
    /\ toast' = <<>>
    /\ telemetry' = <<>>
    /\ UNCHANGED <<homeVars, galleryVars, chatVars, phase, status, isLoading, lastUpdated, inflight, srv, lastArrived>>

Submit(req) ==
    /\ isLoading' = TRUE
    /\ inflight' = Send(inflight, req)
    /\ toast' = <<>>
    /\ telemetry' = <<>>
    /\ UNCHANGED <<homeVars, galleryVars, chatVars, phase, status, lastUpdated, faultConfig, srv, lastArrived>>

\* handleStart up to `await fetch`
ClickStart ==
    /\ phase = "mounted"
    /\ ~ButtonDisabled(StartButtonProps)
    /\ Room
    /\ Submit(Request("start", "start", StartBody))

\* handleStop up to `await fetch`
ClickStop ==
    /\ phase = "mounted"
    /\ ~ButtonDisabled(StopButtonProps)
    /\ Room
    /\ Submit(StopRequest)

\* updateFaults up to `await fetch`
ClickApply ==
    /\ phase = "mounted"
    /\ ~ButtonDisabled(ApplyButtonProps)
    /\ Room
    /\ Submit(Request("fault", "fault", FaultBody))

\* ------------------------------------------------------------------------
\* the service answers request r with 2xx and its JSON
Answered(r, s) == [r EXCEPT !.state = "ok", !.data = ServerReply(s, r)]

ServerHandle ==
    /\ \E r \in InFlight :
          LET s == ServerApply(srv, r)
          IN  /\ r.state = "pending"
              /\ srv' = s
              /\ inflight' = Send(Take(inflight, r), Answered(r, s))
    /\ toast' = <<>>
    /\ telemetry' = <<>>
    /\ UNCHANGED <<homeVars, galleryVars, chatVars, phase, status, isLoading, lastUpdated, faultConfig, lastArrived>>

\* request r comes back to the client: with its 2xx answer (ok), or as a
\* failure: a non-2xx answer or a network error, before or after the service
\* has acted on it
Arrives(r, ok) == r \in InFlight /\ (ok => r.state = "ok")

\* what the caller of `await fetchStatus()` does next: the success toast,
\* or its catch block had fetchStatus thrown; then finally setIsLoading(false)
AfterRepoll(owner, threw) ==
    CASE owner = "timer" -> [toast |-> <<>>, isLoading |-> isLoading]
      [] owner = "stop"  -> [toast |-> IF threw THEN <<"Error Stopping Demo">> ELSE <<"Demo Stopped">>,
                             isLoading |-> FALSE]
      [] owner = "fault" -> [toast |-> IF threw THEN <<"Update Failed">> ELSE <<"Faults Updated">>,
                             isLoading |-> FALSE]

\* the response of status poll r arrives: the rest of fetchStatus, then the
\* rest of the handler that awaited it
DeliverStatusOf(r, ok) ==
    LET res == FetchStatusResult(r, ok)
        aft == AfterRepoll(r.owner, res.threw)
    IN  /\ Arrives(r, ok)
        /\ r.kind = "status"
        /\ inflight' = Take(inflight, r)
        /\ status' = SetState(status, res.status)
        /\ lastUpdated' = SetState(lastUpdated, res.lastUpdated)
        /\ faultConfig' = SetState(faultConfig, res.faultConfig)
        /\ isLoading' = SetState(isLoading, aft.isLoading)
        /\ toast' = res.toast \o aft.toast
        /\ lastArrived' = IF ok THEN SetState(lastArrived, r.data) ELSE lastArrived
        /\ telemetry' = <<>>
        /\ UNCHANGED <<homeVars, galleryVars, chatVars, phase, srv>>

DeliverStatus == \E r \in InFlight : \E ok \in BOOLEAN : DeliverStatusOf(r, ok)

\* the response of POST /start arrives: the rest of handleStart
DeliverStartOf(r, ok) ==
    LET res == IF ok THEN HandleStartOk(r.data) ELSE HandleStartFailed
    IN  /\ Arrives(r, ok)
        /\ r.kind = "start"
        /\ inflight' = Take(inflight, r)
        /\ status' = SetState(status, res.status)
        /\ toast' = res.toast
        /\ lastArrived' = IF ok THEN SetState(lastArrived, r.data) ELSE lastArrived
        /\ isLoading' = SetState(isLoading, FALSE)
        /\ telemetry' = <<>>
        /\ UNCHANGED <<homeVars, galleryVars, chatVars, phase, lastUpdated, faultConfig, srv>>

DeliverStart == \E r \in InFlight : \E ok \in BOOLEAN : DeliverStartOf(r, ok)

\* (mutant) the handler does not re-poll
RepollAfter_None(r) == <<>>

\* requests a handler sends once its own POST has come back 2xx:
\* `await fetchStatus()`
RepollAfter(r) == <<[Request("status", r.owner, NoBody) EXCEPT !.shown = r.shown]>>

\* the response of POST /stop or POST /fault arrives: the rest of handleStop
\* / updateFaults up to `await fetchStatus()`, or their catch and finally
DeliverSubmissionOf(r, ok, failTitle) ==
    LET polls == IF ok THEN RepollAfter(r) ELSE <<>>
    IN  /\ Arrives(r, ok)
        /\ inflight' = IF polls = <<>> THEN Take(inflight, r)
                                       ELSE Send(Take(inflight, r), polls[1])
        /\ toast' = IF ok THEN <<>> ELSE <<failTitle>>
        /\ isLoading' = IF ok THEN isLoading ELSE SetState(isLoading, FALSE)
        /\ telemetry' = <<>>
        /\ UNCHANGED <<homeVars, galleryVars, chatVars, phase, status, lastUpdated, faultConfig, srv, lastArrived>>

DeliverStopOf(r, ok) == r.kind = "stop" /\ DeliverSubmissionOf(r, ok, "Error Stopping Demo")

DeliverStop == \E r \in InFlight : \E ok \in BOOLEAN : DeliverStopOf(r, ok)

DeliverFaultOf(r, ok) == r.kind = "fault" /\ DeliverSubmissionOf(r, ok, "Update Failed")

DeliverFault == \E r \in InFlight : \E ok \in BOOLEAN : DeliverFaultOf(r, ok)

\* a poll comes back with its 2xx answer
DeliverStatusOk == \E r \in InFlight : DeliverStatusOf(r, TRUE)

\* the panel while it stays mounted: the polls, the sliders, Start and
\* Apply Faults
PollNext ==
    \/ Mount
    \/ Tick
    \/ EditFault
    \/ ClickStart
    \/ ClickApply
    \/ ServerHandle
    \/ DeliverStatus
    \/ DeliverStart
    \/ DeliverFault

\* the interval keeps firing, the service keeps answering, every response
\* comes back and polls keep coming back with their 2xx answer
PollFairness ==
    /\ WF_vars(Mount)
    /\ SF_vars(Tick)
    /\ SF_vars(ServerHandle)
    /\ WF_vars(DeliverStatus \/ DeliverStart \/ DeliverFault)
    /\ SF_vars(DeliverStatusOk)

KafkaNext ==
    \/ Mount
    \/ Tick
    \/ Unmount
    \/ EditFault
    \/ ClickStart
    \/ ClickStop
    \/ ClickApply
    \/ ServerHandle
    \/ DeliverStatus
    \/ DeliverStart
    \/ DeliverStop
    \/ DeliverFault


\* =========================================================================
\*                       properties of the panel
\* =========================================================================
Polls(bag) == {r \in BagToSet(bag) : r.kind = "status"}

CountPolls(bag, owners) ==
    BagCardinality([r \in {x \in Polls(bag) : x.owner \in owners} |-> bag[r]])

AllOwners == {"timer", "stop", "fault"}

Mounted == phase = "mounted"

\* C1: while a submission is in flight (isLoading) an arriving status poll
\* response leaves faultConfig alone; with no submission in flight a
\* successful poll response replaces faultConfig by the response's fault.
C1_PollSparesFaultWhileLoading ==
    [][\A r \in InFlight :
          (Mounted /\ DeliverStatusOf(r, TRUE)) =>
              IF isLoading THEN faultConfig' = faultConfig
                           ELSE faultConfig' = r.data.fault]_vars

\* C2: a 2xx answer to POST /fault makes updateFaults issue a status poll
\* while the loading flag is still as it was; when that poll succeeds, the
\* step that clears the loading flag leaves status and faultConfig equal to
\* the poll's payload, whatever the run state.
C2_FaultUpdateAdoptsServerValues ==
    [][\A r \in InFlight :
          /\ DeliverFaultOf(r, TRUE) =>
                /\ CountPolls(inflight', {"fault"}) = CountPolls(inflight, {"fault"}) + 1
                /\ isLoading' = isLoading
          /\ (Mounted /\ r.owner = "fault" /\ DeliverStatusOf(r, TRUE)) =>
                /\ ~isLoading'
                /\ status' = r.data
                /\ faultConfig' = r.data.fault]_vars

C2_Witness ==
    /\ Mounted
    /\ toast = <<"Faults Updated">>
    /\ ~isLoading
    /\ status = StatusObject(TRUE, faultConfig)
    /\ faultConfig.latency_ms = 250
    /\ srv.fault = faultConfig

\* C3: the displayed status is the payload of the most recently arrived
\* successful poll or start response (null before the first), in whatever
\* order the requests were issued and answered.
C3_StatusIsLastArrival == (phase # "unmounted") => status = lastArrived

\* a stale answer (taken before the service changed) arrived last and is shown
C3_Witness ==
    /\ Mounted
    /\ ~status.isNull
    /\ status = lastArrived
    /\ status # ServerStatus(srv)
    /\ inflight = EmptyBag

\* C4: start is submitted only while the displayed status is not running,
\* its body carries the local fault profile, a 2xx answer becomes the
\* displayed status, a failure leaves it and raises the error notification.
C4_StartOnlyWhenStopped ==
    [][/\ ClickStart =>
             /\ ~StatusRunning
             /\ inflight' = Send(inflight, Request("start", "start",
                    [rate_per_sec |-> 5, scenario |-> "f1", topic_prefix |-> "f1",
                     fault |-> faultConfig]))
       /\ \A r \in InFlight :
             /\ (Mounted /\ DeliverStartOf(r, TRUE)) => status' = r.data
             /\ DeliverStartOf(r, FALSE) =>
                   status' = status /\ toast' = <<"Error Starting Demo">>]_vars

\* C5: stop pressed while the panel shows "not running": the POST has no
\* body; its 2xx answer raises no notification and issues the re-poll with
\* the loading flag untouched; the re-poll's arrival ends the handler with
\* "Demo Stopped" (never an error) and a display that is a function of the
\* re-poll's answer alone, so that a second stop with the same answers
\* changes nothing.
C5_StopWhileStopped ==
    [][/\ (ClickStop /\ ~StatusRunning) =>
             inflight' = Send(inflight, Request("stop", "stop", NoBody))
       /\ \A r \in InFlight : (~r.shown) =>
             /\ DeliverStopOf(r, TRUE) =>
                   /\ toast' = <<>>
                   /\ isLoading' = isLoading
                   /\ CountPolls(inflight', {"stop"}) = CountPolls(inflight, {"stop"}) + 1
             /\ (Mounted /\ r.owner = "stop") =>
                   /\ DeliverStatusOf(r, TRUE) =>
                         /\ toast' = <<"Demo Stopped">>
                         /\ ~isLoading'
                         /\ status' = r.data
                         /\ faultConfig' = r.data.fault
                   /\ DeliverStatusOf(r, FALSE) =>
                         /\ toast' = <<"Demo Stopped">>
                         /\ ~isLoading'
                         /\ status' = status
                         /\ faultConfig' = faultConfig]_vars

\* the re-poll of a stop pressed while the panel showed a stopped run is
\* answered and on its way back
C5_Witness ==
    /\ Mounted
    /\ ~status.isNull
    /\ ~status.running
    /\ \E r \in InFlight : r.kind = "status" /\ r.owner = "stop" /\ ~r.shown /\ r.state = "ok"

TimerIssuesPoll ==
    /\ Mount => inflight' = Send(inflight, TimerPoll)
    /\ Tick => inflight' = Send(inflight, TimerPoll)
    /\ (Mounted /\ Room) => ENABLED Tick

\* C6 as claimed: polls on mount and on every tick, unconditionally, and no
\* poll request at all once the panel is unmounted.
C6_NoPollAfterUnmount ==
    [][/\ TimerIssuesPoll
       /\ phase = "unmounted" =>
             CountPolls(inflight', AllOwners) <= CountPolls(inflight, AllOwners)]_vars

\* C6 as amended: polls on mount and on every tick, unconditionally; once
\* the panel is unmounted no timer poll is issued, and a poll is issued only
\* as the re-poll of a stop / fault submission whose 2xx answer arrives.
C6_NoTimerPollAfterUnmount ==
    [][/\ TimerIssuesPoll
       /\ phase = "unmounted" =>
             /\ CountPolls(inflight', {"timer"}) <= CountPolls(inflight, {"timer"})
             /\ CountPolls(inflight', AllOwners) > CountPolls(inflight, AllOwners) =>
                   \E r \in InFlight : DeliverStopOf(r, TRUE) \/ DeliverFaultOf(r, TRUE)]_vars

C6_Witness ==
    /\ phase = "unmounted"
    /\ isLoading
    /\ \E r \in InFlight : r.kind = "status" /\ r.owner = "stop"

\* C7: a failed status poll changes neither status, lastUpdated nor
\* faultConfig, raises no notification and throws nothing: a handler that
\* awaited it goes on to its success notification.
C7_FailedPollSwallowed ==
    [][\A r \in InFlight :
          DeliverStatusOf(r, FALSE) =>
              /\ status' = status
              /\ lastUpdated' = lastUpdated
              /\ faultConfig' = faultConfig
              /\ toast' = CASE r.owner = "timer" -> <<>>
                            [] r.owner = "stop"  -> <<"Demo Stopped">>
                            [] r.owner = "fault" -> <<"Faults Updated">>]_vars

\* a re-poll failed: the handler has finished with its success notification
\* and the display is older than the service
C7_Witness ==
    /\ Mounted
    /\ toast = <<"Faults Updated">>
    /\ ~isLoading
    /\ status.isNull
    /\ lastUpdated = "null"
    /\ inflight = EmptyBag

\* =========================================================================
\*                       Home.jsx : gallery screen
\* =========================================================================
\* a MIME type "major/minor"; file.type.startsWith('image/')
Mime(major, minor) == [major |-> major, minor |-> minor]

IsImage(file) == file.type.major = "image"

NotImage(file) == ~IsImage(file)

\* the files of a selection event: n files named 1..n in the order picked,
\* those at the places in `bad` are not images
EventFiles(n, bad) ==
    [i \in 1..n |->
        [name |-> i,
         type |-> IF i \in bad THEN Mime("text", "plain")
                  ELSE IF i % 2 = 1 THEN Mime("image", "png") ELSE Mime("image", "jpeg")]]

EventLens == {0, 1, 2, 3, 5, MaxFiles, MaxFiles + 1}

BadSpots == {1, 3}

FileEvents == {EventFiles(n, bad \cap (1..n)) : n \in EventLens, bad \in {{}, BadSpots}}

Toast(title) == [title |-> title, file |-> 0, counts |-> <<>>]

FileToast(title, name) == [title |-> title, file |-> name, counts |-> <<>>]

\* description: `${successCount} successful, ${errorCount} failed, ${questionableCount} flagged`
SummaryToast(successCount, errorCount, questionableCount) ==
    [title |-> "Upload Results", file |-> 0,
     counts |-> <<successCount, errorCount, questionableCount>>]

\* sendCustomAction(name, {...}) -> datadogRum.addAction
ActionReport(name) == [kind |-> "action", context |-> name]

\* datadogRum.addError(error, {context: ...})
ErrorReport(context) == [kind |-> "error", context |-> context]

\* (mutant) the type filter is left out
HandleFileSelection_NoFilter(files) ==
    IF Len(files) = 0 \/ Len(files) > MaxFiles
    THEN [isSelected |-> FALSE, selectedFiles |-> <<>>,
          toast |-> IF Len(files) = 0 THEN <<>> ELSE <<Toast("Too Many Files")>>]
    ELSE [isSelected |-> TRUE, selectedFiles |-> files, toast |-> <<Toast("Files Selected")>>]

\* (mutant) the count check is left out
HandleFileSelection_NoLimit(files) ==
    LET validFiles == SelectSeq(files, IsImage)
        warned     == IF Len(validFiles) < Len(files) THEN <<Toast("Invalid File Type")>> ELSE <<>>
    IN  IF Len(validFiles) > 0
        THEN [isSelected |-> TRUE, selectedFiles |-> validFiles,
              toast |-> warned \o <<Toast("Files Selected")>>]
        ELSE [isSelected |-> FALSE, selectedFiles |-> <<>>, toast |-> warned]

\* (mutant) the new files are added to the pending ones
HandleFileSelection_Accumulates(files) ==
    LET validFiles == selectedFiles \o SelectSeq(files, IsImage)
        warned     == IF \E i \in 1..Len(files) : NotImage(files[i])
                      THEN <<Toast("Invalid File Type")>> ELSE <<>>
    IN  IF Len(files) > MaxFiles
        THEN [isSelected |-> FALSE, selectedFiles |-> <<>>, toast |-> <<Toast("Too Many Files")>>]
        ELSE IF Len(validFiles) > 0
        THEN [isSelected |-> TRUE, selectedFiles |-> validFiles,
              toast |-> warned \o <<Toast("Files Selected")>>]
        ELSE [isSelected |-> FALSE, selectedFiles |-> <<>>, toast |-> warned]

\* handleFileSelection(details), files = details.acceptedFiles || details.files || []
HandleFileSelection(files) ==
    IF Len(files) = 0
    THEN [isSelected |-> FALSE, selectedFiles |-> <<>>, toast |-> <<>>]
    ELSE IF Len(files) > MaxFiles
    THEN [isSelected |-> FALSE, selectedFiles |-> <<>>, toast |-> <<Toast("Too Many Files")>>]
    ELSE LET invalidFiles == SelectSeq(files, NotImage)
             validFiles   == SelectSeq(files, IsImage)
             warned       == IF Len(invalidFiles) > 0 THEN <<Toast("Invalid File Type")>> ELSE <<>>
         IN  IF Len(validFiles) > 0
             THEN [isSelected |-> TRUE, selectedFiles |-> validFiles,
                   toast |-> warned \o <<Toast("Files Selected")>>]
             ELSE [isSelected |-> FALSE, selectedFiles |-> <<>>, toast |-> warned]

NoPick == [event |-> FALSE, files |-> <<>>]

Idle == [active |-> FALSE, files |-> <<>>, results |-> <<>>, flag |-> FALSE, pending |-> {}]

HomeInit ==
    /\ selectedFiles = <<>>
    /\ isSelected = FALSE
    /\ homeIsLoading = FALSE
    /\ isUploadSuccessful = FALSE
    /\ fileUploadKey = 0
    /\ prompt = ""
    /\ isGenerating = FALSE
    /\ upload = Idle
    /\ gens = EmptyBag
    /\ picked = NoPick

\* the picker reports a selection
SelectFilesOf(files) ==
    LET res == HandleFileSelection(files)
    IN  /\ isSelected' = res.isSelected
        /\ selectedFiles' = res.selectedFiles
        /\ toast' = res.toast
        /\ telemetry' = <<>>
        /\ picked' = [event |-> TRUE, files |-> files]
        /\ UNCHANGED <<kafkaVars, galleryVars, chatVars, homeIsLoading, isUploadSuccessful, fileUploadKey,
                       prompt, isGenerating, upload, gens>>

SelectFiles == \E files \in FileEvents : SelectFilesOf(files)

\* <Button onClick={onFileUpload} loading={isLoading} disabled={selectedFiles.length === 0}>
UploadButtonProps == [loading |-> homeIsLoading, disabled |-> Len(selectedFiles) = 0]

\* (mutant) the requests of a batch are all sent at once
FirstRequests_Parallel(files) == 1..Len(files)

\* places in files of the add_image requests sent when the batch starts:
\* `for (const file of selectedFiles)` runs to its first `await postImage`
FirstRequests(files) == {1}

\* (mutant) a failed file ends the loop
NextRequests_AbortOnError(files, results) ==
    IF Len(results) < Len(files) /\ results[Len(results)].status # "error"
    THEN {Len(results) + 1} ELSE {}

\* places in files of the requests sent once a result has been pushed: the
\* next turn of the loop, whatever the result was
NextRequests(files, results) == IF Len(results) < Len(files) THEN {Len(results) + 1} ELSE {}

\* (mutant) the empty selection is not caught
OnFileUpload_NoEmptyCheck(files) ==
    [started |-> TRUE, toast |-> <<>>, requests |-> FirstRequests(files),
     telemetry |-> <<ActionReport("image_upload_started")>>]

\* onFileUpload up to the first `await postImage`, files = selectedFiles
OnFileUpload(files) ==
    IF Len(files) = 0
    THEN [started |-> FALSE, toast |-> <<Toast("Select Images")>>, requests |-> {},
          telemetry |-> <<>>]
    ELSE [started |-> TRUE, toast |-> <<>>, requests |-> FirstRequests(files),
          telemetry |-> <<ActionReport("image_upload_started")>>]

\* the Upload button is pressed
ClickUpload ==
    LET res == OnFileUpload(selectedFiles)
    IN  /\ ~ButtonDisabled(UploadButtonProps)
        /\ Len(selectedFiles) <= MaxBatch
        /\ fileUploadKey < MaxUploads
        /\ homeIsLoading' = IF res.started THEN TRUE ELSE homeIsLoading
        /\ upload' = IF res.started
                     THEN [active |-> TRUE, files |-> selectedFiles, results |-> <<>>,
                           flag |-> isUploadSuccessful, pending |-> res.requests]
                     ELSE upload
        /\ toast' = res.toast
        /\ telemetry' = res.telemetry
        /\ picked' = NoPick
        /\ UNCHANGED <<kafkaVars, galleryVars, chatVars, selectedFiles, isSelected, isUploadSuccessful,
                       fileUploadKey, prompt, isGenerating, gens>>

UploadOutcomes == {"success", "questionable", "error"}

CountOf(results, outcome) ==
    Cardinality({i \in 1..Len(results) : results[i].status = outcome})

\* the notifications at the end of a batch: the summary, then one per flagged file
UploadSummary(results) ==
    LET flagged == SelectSeq(results, LAMBDA x : x.status = "questionable")
    IN  (IF CountOf(results, "success") > 0
         THEN <<SummaryToast(CountOf(results, "success"), CountOf(results, "error"),
                             CountOf(results, "questionable"))>>
         ELSE <<>>)
        \o [i \in 1..Len(flagged) |-> FileToast("Questionable Content", flagged[i].file)]

\* the reports of one turn of the loop after its await
UploadReports(outcome) ==
    IF outcome = "error" THEN <<ErrorReport("file_upload")>>
                         ELSE <<ActionReport("image_upload_completed")>>

\* the answer to the add_image request of the file at place i arrives: the
\* rest of the loop body, then the next request or the summary and the
\* finally block
UploadResponseOf(i, outcome) ==
    LET results == Append(upload.results, [file |-> upload.files[i].name, status |-> outcome])
        next    == NextRequests(upload.files, results)
        pending == (upload.pending \ {i}) \cup next
    IN  /\ upload.active
        /\ i \in upload.pending
        /\ IF pending # {}
           THEN /\ upload' = [upload EXCEPT !.results = results, !.pending = pending]
                /\ toast' = <<>>
                /\ telemetry' = UploadReports(outcome) \o
                                [k \in 1..Cardinality(next) |-> ActionReport("image_upload_started")]
                /\ UNCHANGED <<selectedFiles, isSelected, homeIsLoading,
                               isUploadSuccessful, fileUploadKey>>
           ELSE /\ upload' = Idle
                /\ toast' = UploadSummary(results)
                /\ telemetry' = UploadReports(outcome)
                /\ isUploadSuccessful' = IF CountOf(results, "success") > 0
                                         THEN ~upload.flag ELSE isUploadSuccessful
                /\ homeIsLoading' = FALSE
                /\ selectedFiles' = <<>>
                /\ isSelected' = FALSE
                /\ fileUploadKey' = fileUploadKey + 1
        /\ picked' = NoPick
        /\ UNCHANGED <<kafkaVars, galleryVars, chatVars, prompt, isGenerating, gens>>

UploadResponse == \E i \in upload.pending : \E outcome \in UploadOutcomes : UploadResponseOf(i, outcome)

Prompts == {"", "a city"}

\* onChange={(e) => setPrompt(e.target.value)}
SetPrompt ==
    /\ \E p \in Prompts : p # prompt /\ prompt' = p
    /\ toast' = <<>>
    /\ telemetry' = <<>>
    /\ picked' = NoPick
    /\ UNCHANGED <<kafkaVars, galleryVars, chatVars, selectedFiles, isSelected, homeIsLoading,
                   isUploadSuccessful, fileUploadKey, isGenerating, upload, gens>>

\* <Button isLoading={isGenerating} onClick={handleGenerateAndUpload}>
GenerateButtonProps == [isLoading |-> isGenerating]

\* handleGenerateAndUpload up to `await fetch`
ClickGenerate ==
    /\ ~ButtonDisabled(GenerateButtonProps)
    /\ IF prompt = ""
       THEN /\ toast' = <<Toast("Prompt Required")>>
            /\ UNCHANGED <<isGenerating, gens>>
       ELSE /\ BagCardinality(gens) < MaxGenerations
            /\ isGenerating' = TRUE
            /\ gens' = Send(gens, [stage |-> "generate", flag |-> isUploadSuccessful])
            /\ toast' = <<>>
    /\ telemetry' = <<>>
    /\ picked' = NoPick
    /\ UNCHANGED <<kafkaVars, galleryVars, chatVars, selectedFiles, isSelected, homeIsLoading,
                   isUploadSuccessful, fileUploadKey, prompt, upload>>

GenerateOutcomes == {"image", "noimage", "fail"}

\* the answer of the generation endpoint arrives: 2xx with image_base64,
\* 2xx without it, or a failure
GenerateResponseOf(g, outcome) ==
    /\ g \in BagToSet(gens)
    /\ g.stage = "generate"
    /\ IF outcome = "image"
       THEN /\ gens' = Send(Take(gens, g), [g EXCEPT !.stage = "upload"])
            /\ toast' = <<Toast("Image Generated")>>
            /\ UNCHANGED isGenerating
       ELSE /\ gens' = Take(gens, g)
            /\ toast' = <<Toast("Generation Failed")>>
            /\ isGenerating' = FALSE
    /\ telemetry' = <<>>
    /\ picked' = NoPick
    /\ UNCHANGED <<kafkaVars, galleryVars, chatVars, selectedFiles, isSelected, homeIsLoading,
                   isUploadSuccessful, fileUploadKey, prompt, upload>>

GenerateResponse ==
    \E g \in BagToSet(gens) : \E outcome \in GenerateOutcomes : GenerateResponseOf(g, outcome)

\* the statuses of an answered add_image request, and 0 for a failed one
GenUploadStatuses == {200, 201, 202, 0}

\* (mutant) every answered upload counts as a success
GenUploadSucceeded_AnyStatus(st) == st # 0

\* res.status === 200 || res.status === 201
GenUploadSucceeded(st) == st \in {200, 201}

\* the answer to the add_image request of the generated file arrives
GenUploadResponseOf(g, st) ==
    /\ g \in BagToSet(gens)
    /\ g.stage = "upload"
    /\ gens' = Take(gens, g)
    /\ IF GenUploadSucceeded(st)
       THEN /\ toast' = <<Toast("Success")>>
            /\ prompt' = ""
            /\ isUploadSuccessful' = ~g.flag
       ELSE /\ toast' = IF st = 0 THEN <<Toast("Generation Failed")>> ELSE <<>>
            /\ UNCHANGED <<prompt, isUploadSuccessful>>
    /\ isGenerating' = FALSE
    /\ telemetry' = <<>>
    /\ picked' = NoPick
    /\ UNCHANGED <<kafkaVars, galleryVars, chatVars, selectedFiles, isSelected, homeIsLoading,
                   fileUploadKey, upload>>

GenUploadResponse ==
    \E g \in BagToSet(gens) : \E st \in GenUploadStatuses : GenUploadResponseOf(g, st)

UploadNext ==
    \/ SelectFiles
    \/ ClickUpload
    \/ UploadResponse

HomeNext ==
    \/ SelectFiles
    \/ ClickUpload
    \/ UploadResponse
    \/ SetPrompt
    \/ ClickGenerate
    \/ GenerateResponse
    \/ GenUploadResponse

\* =========================================================================
\*                  Home.jsx : image list of the gallery screen
\* =========================================================================
\* an absent field of a record (undefined)
NoId == "undefined"

\* useState(null), setDeletingImageId(null)
Null == "null"

\* an image record: Postgres rows carry id, Mongo documents carry _id.$oid
ImageRecord(id, oid, name) == [id |-> id, oid |-> oid, name |-> name]

\* the images the service can hold, in the order it lists them
ServerOrder == <<ImageRecord("p1", NoId, "a.png"), ImageRecord(NoId, "m2", "b.png"),
                 ImageRecord("p3", NoId, "c.png")>>

\* the placeholder list of getImages
MockImages == <<ImageRecord("mock-1", NoId, "sample-image-1.jpg"),
                ImageRecord("mock-2", NoId, "sample-image-2.jpg")>>

\* (mutant) only the flat id is read
ImageId_FlatOnly(image) == image.id

\* const id = image.id || image._id?.$oid
ImageId(image) == IF image.id # NoId THEN image.id ELSE image.oid

\* const uniqueKey = image.id || image._id?.$oid || `${image.name}-${image.url}`
UniqueKey(image) == IF ImageId(image) # NoId THEN ImageId(image) ELSE image.name

Images(list) == {list[i] : i \in 1..Len(list)}

ServerImages == Images(ServerOrder)

\* the two storage targets
Backends == {"mongo", "postgres"}

\* activeBackend when the "activeBackend" key holds nothing
DefaultBackend == "mongo"

\* the records a backend holds when the other one holds set
OtherOf(set) == ServerImages \ set

\* GET /images: the stored images
ListOf(set) == SelectSeq(ServerOrder, LAMBDA x : x \in set)

\* the error a failed GET /images rejects with: error.code, whether
\* error.message includes 'CORS', error.response?.status (0: no response)
ListErrors ==
    [code : {"ERR_NETWORK", "ERR_NAME_NOT_RESOLVED", "ECONNREFUSED", "ERR_BAD_REQUEST"},
     cors : BOOLEAN, status : {0, 404}]

IsNetworkError(error) ==
    \/ error.code = "ERR_NETWORK"
    \/ error.code = "ERR_NAME_NOT_RESOLVED"
    \/ error.code = "ECONNREFUSED"
    \/ error.cors

\* getImages, catch block: the placeholder list in development for a
\* network-class error, else the error is thrown again
GetImagesFailed(error) ==
    IF isDevelopment /\ IsNetworkError(error)
    THEN [thrown |-> FALSE, data |-> MockImages]
    ELSE [thrown |-> TRUE, data |-> <<>>]

\* (mutant) the 404 test comes first
LoadErrorTitle_StatusFirst(error) ==
    IF error.status = 404 THEN "API Endpoint Not Found"
    ELSE IF error.code = "ERR_NETWORK" \/ error.code = "ERR_NAME_NOT_RESOLVED"
    THEN "Network Connection Error"
    ELSE IF error.code = "ECONNREFUSED" THEN "Backend Server Unavailable"
    ELSE IF error.cors THEN "CORS Configuration Issue"
    ELSE "Failed to Load Images"

\* loadImages, catch block: errorTitle
LoadErrorTitle(error) ==
    IF error.code = "ERR_NETWORK" \/ error.code = "ERR_NAME_NOT_RESOLVED"
    THEN "Network Connection Error"
    ELSE IF error.code = "ECONNREFUSED" THEN "Backend Server Unavailable"
    ELSE IF error.cors THEN "CORS Configuration Issue"
    ELSE IF error.status = 404 THEN "API Endpoint Not Found"
    ELSE "Failed to Load Images"

\* loadImages after `await getImages()` resolved with data
LoadImagesOk(data) == [allImages |-> data, toast |-> <<>>, telemetry |-> <<>>, setItem |-> TRUE]

\* loadImages after the request failed with error
LoadImagesFailed(error) ==
    LET got == GetImagesFailed(error)
    IN  IF got.thrown
        THEN [allImages |-> <<>>, toast |-> <<Toast(LoadErrorTitle(error))>>,
              telemetry |-> <<ErrorReport("image_loading")>>, setItem |-> FALSE]
        ELSE LoadImagesOk(got.data)

\* [isUploadSuccessful, isDeleteSuccessful, activeBackend]
Deps == <<isUploadSuccessful, isDeleteSuccessful, activeBackend>>

NoDeps == <<>>

\* a render has committed dependency values the effect has not run for; the
\* effect runs before any later handler of the list
EffectPending == effectDeps # Deps

GalleryFresh ==
    /\ allImages = <<>>
    /\ isLoadingImages = FALSE
    /\ deletingImageId = Null
    /\ isDeleteSuccessful = FALSE
    /\ expandedDropdowns = <<>>
    /\ effectDeps = NoDeps
    /\ loads = EmptyBag
    /\ deletes = EmptyBag
    /\ lastSelected = Null
    /\ errorRun = <<>>

\* the value useEnvContext() starts with: the stored selection, if there is one
RestoredBackend(item) == IF item \in Backends THEN item ELSE DefaultBackend

GalleryInit ==
    /\ GalleryFresh
    /\ stored = [b \in Backends |-> IF b = DefaultBackend THEN ServerImages ELSE {}]
    /\ isDevelopment = FALSE
    /\ localStorage = Null
    /\ activeBackend = RestoredBackend(localStorage)

\* useEffect(() => { loadImages() }, [...]): loadImages up to `await getImages()`
LoadImagesEffect ==
    /\ EffectPending
    /\ BagCardinality(loads) < MaxLoads
    /\ effectDeps' = Deps
    /\ isLoadingImages' = TRUE
    /\ loads' = Send(loads, activeBackend)
    /\ toast' = <<>>
    /\ telemetry' = <<>>
    /\ UNCHANGED <<kafkaVars, homeVars, chatVars, lastSelected, errorRun,
                   allImages, deletingImageId, isDeleteSuccessful,
                   expandedDropdowns, deletes, stored, isDevelopment, activeBackend,
                   localStorage>>

\* localStorage.setItem("activeBackend", activeBackend), backend the
\* selection of the render that ran the effect
SetItem(backend) == backend

\* the rest of loadImages for the request made for backend, res the record
\* of what its setters receive
LoadImagesEnds(backend, res) ==
    /\ ~EffectPending
    /\ backend \in BagToSet(loads)
    /\ loads' = Take(loads, backend)
    /\ allImages' = res.allImages
    /\ localStorage' = IF res.setItem THEN SetItem(backend) ELSE localStorage
    /\ isLoadingImages' = FALSE
    /\ toast' = res.toast
    /\ telemetry' = res.telemetry
    /\ UNCHANGED <<kafkaVars, homeVars, chatVars, lastSelected, errorRun,
                   deletingImageId, isDeleteSuccessful,
                   expandedDropdowns, effectDeps, deletes, stored, isDevelopment,
                   activeBackend>>

\* GET /images?backend=... is answered with the list of that backend
LoadImagesResolved ==
    \E backend \in Backends : LoadImagesEnds(backend, LoadImagesOk(ListOf(stored[backend])))

\* GET /images fails with error
LoadImagesRejectedWith(error) ==
    \E backend \in Backends : LoadImagesEnds(backend, LoadImagesFailed(error))

LoadImagesRejected == \E error \in ListErrors : LoadImagesRejectedWith(error)

\* <IconButton loading={deletingImageId === (image.id || image._id?.$oid)}>
DeleteButtonProps(image) == [loading |-> deletingImageId = ImageId(image)]

\* onFileDelete(image) up to `await delImage(id)`
ClickDeleteOf(image) ==
    /\ ~EffectPending
    /\ image \in Images(allImages)
    /\ ~ButtonDisabled(DeleteButtonProps(image))
    /\ BagCardinality(deletes) < MaxDeletes
    /\ deletingImageId' = ImageId(image)
    /\ deletes' = Send(deletes, [id |-> ImageId(image), flag |-> isDeleteSuccessful,
                                 backend |-> activeBackend])
    /\ toast' = <<>>
    /\ telemetry' = <<ActionReport("image_delete_started")>>
    /\ UNCHANGED <<kafkaVars, homeVars, chatVars, lastSelected, errorRun,
                   allImages, isLoadingImages, isDeleteSuccessful,
                   expandedDropdowns, effectDeps, loads, stored, isDevelopment,
                   activeBackend, localStorage>>

ClickDelete == \E image \in Images(allImages) : ClickDeleteOf(image)

\* the statuses of an answered DELETE request, and 0 for a failed one
DeleteStatuses == {200, 201, 204, 207, 0}

\* res.status === 200 || res.status === 201 || res.status === 204
DeleteSucceeded(st) == st \in {200, 201, 204}

\* setIsDeleteSuccessful(!isDeleteSuccessful), flag the value the handler
\* was created with
DeleteTrigger(flag) == ~flag

\* the rest of onFileDelete: try after the await, catch, finally
DeleteResponseOf(d, st) ==
    /\ ~EffectPending
    /\ d \in BagToSet(deletes)
    /\ deletes' = Take(deletes, d)
    /\ IF st = 0
       THEN /\ toast' = <<Toast("Delete Failed")>>
            /\ telemetry' = <<ActionReport("image_delete_failed")>>
            /\ UNCHANGED <<isDeleteSuccessful, stored>>
       ELSE IF DeleteSucceeded(st)
       THEN /\ toast' = <<Toast("Delete Successful")>>
            /\ telemetry' = <<ActionReport("image_delete_completed")>>
            /\ isDeleteSuccessful' = DeleteTrigger(d.flag)
            /\ stored' = [stored EXCEPT ![d.backend] = {x \in @ : ImageId(x) # d.id}]
       ELSE /\ toast' = <<Toast("Delete Warning")>>
            /\ telemetry' = <<ActionReport("image_delete_completed")>>
            /\ UNCHANGED <<isDeleteSuccessful, stored>>
    /\ deletingImageId' = Null
    /\ UNCHANGED <<kafkaVars, homeVars, chatVars, lastSelected, errorRun,
                   allImages, isLoadingImages, expandedDropdowns,
                   effectDeps, loads, isDevelopment, activeBackend, localStorage>>

DeleteResponse == \E d \in BagToSet(deletes) : \E st \in DeleteStatuses : DeleteResponseOf(d, st)

\* expandedDropdowns[uniqueKey] || false
IsDropdownOpen(dropdowns, key) == key \in DOMAIN dropdowns /\ dropdowns[key]

\* (mutant) the other entries are not copied
Toggled_NoSpread(prev, key) == [k \in {key} |-> ~IsDropdownOpen(prev, key)]

\* prev => ({...prev, [uniqueKey]: !prev[uniqueKey]})
Toggled(prev, key) ==
    [k \in DOMAIN prev \cup {key} |-> IF k = key THEN ~IsDropdownOpen(prev, key) ELSE prev[k]]

\* toggleDropdown of the card of image
ToggleDropdownOf(image) ==
    /\ ~EffectPending
    /\ image \in Images(allImages)
    /\ expandedDropdowns' = Toggled(expandedDropdowns, UniqueKey(image))
    /\ toast' = <<>>
    /\ telemetry' = <<>>
    /\ UNCHANGED <<kafkaVars, homeVars, chatVars, lastSelected, errorRun,
                   allImages, isLoadingImages, deletingImageId,
                   isDeleteSuccessful, effectDeps, loads, deletes, stored, isDevelopment,
                   activeBackend, localStorage>>

ToggleDropdown == \E image \in Images(allImages) : ToggleDropdownOf(image)

\* the Mongo / Postgres buttons: setActiveBackend(backend)
SelectBackendOf(backend) ==
    /\ ~EffectPending
    /\ activeBackend' = backend
    /\ lastSelected' = backend
    /\ toast' = <<>>
    /\ telemetry' = <<>>
    /\ UNCHANGED <<kafkaVars, homeVars, chatVars, errorRun, allImages, isLoadingImages, deletingImageId,
                   isDeleteSuccessful, expandedDropdowns, effectDeps, loads, deletes,
                   stored, isDevelopment, localStorage>>

SelectBackend == \E backend \in Backends : SelectBackendOf(backend)

\* this.name = `ERROR on - "${message}" `
ErrorName(message) == [prefix |-> "ERROR on - ", of |-> message]

\* datadogRum.addError(error, {message: this.name, stack, source: "Home.jsx", type: "Error"})
ValidationReport(message) ==
    [kind |-> "error", source |-> "Home.jsx", type |-> "Error", message |-> ErrorName(message)]

\* one thing a handler does: a telemetry call, a notification or a throw
Step(step, what) == [step |-> step, what |-> what]

\* (mutant) the constructor reports nothing
ValidationError_Silent(message) == <<>>

\* new ValidationError(message): what the constructor does
ValidationError(message) == <<Step("addError", ValidationReport(message))>>

\* onSendError(image), from its first statement to the throw
OnSendError(image) ==
    <<Step("addAction", ActionReport("error_generation")),
      Step("toast", Toast("Error Sent"))>>
    \o ValidationError(image.name)
    \o <<Step("throw", ErrorName(image.name))>>

\* the things of a run that are of one kind, in order
StepsOf(run, step) ==
    LET at == SelectSeq([k \in 1..Len(run) |-> k], LAMBDA k : run[k].step = step)
    IN  [k \in 1..Len(at) |-> run[at[k]].what]

\* the 'throw error' button of a card: onClick={() => onSendError(image)}
SendErrorOf(image) ==
    /\ ~EffectPending
    /\ image \in Images(allImages)
    /\ errorRun' = OnSendError(image)
    /\ telemetry' = StepsOf(errorRun', "addAction") \o StepsOf(errorRun', "addError")
    /\ toast' = StepsOf(errorRun', "toast")
    /\ UNCHANGED <<kafkaVars, homeVars, chatVars, lastSelected, allImages, isLoadingImages,
                   deletingImageId, isDeleteSuccessful, expandedDropdowns, effectDeps, loads,
                   deletes, stored, isDevelopment, activeBackend, localStorage>>

SendError == \E image \in Images(allImages) : SendErrorOf(image)

ErrorNext ==
    \/ LoadImagesEffect
    \/ LoadImagesResolved
    \/ LoadImagesRejected
    \/ SendError

GalleryNext ==
    \/ LoadImagesEffect
    \/ LoadImagesResolved
    \/ LoadImagesRejected
    \/ ClickDelete
    \/ DeleteResponse

DropdownNext ==
    \/ LoadImagesEffect
    \/ LoadImagesResolved
    \/ LoadImagesRejected
    \/ ToggleDropdown

BackendNext ==
    \/ LoadImagesEffect
    \/ LoadImagesResolved
    \/ LoadImagesRejected
    \/ SelectBackend

\* =========================================================================
\*                       ImageChat.jsx : chat client
\* =========================================================================
\* what the input field can hold: nothing, blanks, text
ChatPrompts == {"", " ", "a city", "make it rainy"}

\* prompt.trim()
Trim(p) == IF p = " " THEN "" ELSE p

Models == {"gemini-3-pro-image-preview", "gemini-2.5-flash-image"}

Resolutions == {"1024x1024", "512x512"}

\* { text: prompt }
TextPart(text) == [text |-> text]

\* { image_base64: ..., mime_type: ... }
ImagePart(data, mime) == [image_base64 |-> data, mime_type |-> mime]

\* { role, parts }
Turn(role, parts) == [role |-> role, parts |-> parts]

\* if (part.image_base64)
HasImage(part) == "image_base64" \in DOMAIN part /\ part.image_base64 # ""

\* parts.map(part => ...): an image part is cut down to its two fields,
\* any other part to its text
SerializePart(part) ==
    IF HasImage(part)
    THEN [image_base64 |-> part.image_base64, mime_type |-> part.mime_type]
    ELSE [text |-> part.text]

\* newMessages.map(msg => ({ role: msg.role, parts: msg.parts.map(...) }))
Serialize(history) ==
    [k \in 1..Len(history) |->
        [role  |-> history[k].role,
         parts |-> [j \in 1..Len(history[k].parts) |-> SerializePart(history[k].parts[j])]]]

\* (mutant) the body is built from the history of the render, without the new turn
PayloadOf_StaleHistory(history, newMessages) == Serialize(history)

\* payloadMessages, built from newMessages
PayloadOf(history, newMessages) == Serialize(newMessages)

ChatInit ==
    /\ messages = <<>>
    /\ chatPrompt = ""
    /\ chatIsLoading = FALSE
    /\ selectedModel = "gemini-3-pro-image-preview"
    /\ resolution = "1024x1024"
    /\ sends = EmptyBag

\* <Input onChange={(e) => setPrompt(e.target.value)} disabled={isLoading}>
SetChatPrompt ==
    /\ ~chatIsLoading
    /\ \E p \in ChatPrompts : p # chatPrompt /\ chatPrompt' = p
    /\ toast' = <<>>
    /\ telemetry' = <<>>
    /\ UNCHANGED <<kafkaVars, homeVars, galleryVars, messages, chatIsLoading,
                   selectedModel, resolution, sends>>

\* onChange={(e) => setSelectedModel(e.target.value)}
SelectModel ==
    /\ \E m \in Models : m # selectedModel /\ selectedModel' = m
    /\ toast' = <<>>
    /\ telemetry' = <<>>
    /\ UNCHANGED <<kafkaVars, homeVars, galleryVars, messages, chatPrompt, chatIsLoading,
                   resolution, sends>>

\* onChange={(e) => setResolution(e.target.value)}
SelectResolution ==
    /\ \E r \in Resolutions : r # resolution /\ resolution' = r
    /\ toast' = <<>>
    /\ telemetry' = <<>>
    /\ UNCHANGED <<kafkaVars, homeVars, galleryVars, messages, chatPrompt, chatIsLoading,
                   selectedModel, sends>>

\* (mutant) a blank prompt is sent like any other
IsBlank_Never(p) == FALSE

\* if (!prompt.trim()) return
IsBlank(p) == Trim(p) = ""

\* handleSendMessage up to `await fetch`, called by the send button or by
\* Enter in the input field; both are disabled while isLoading
HandleSendMessage ==
    /\ ~chatIsLoading
    /\ IF IsBlank(chatPrompt)
       THEN UNCHANGED <<messages, chatPrompt, chatIsLoading, sends>>
       ELSE LET userMessage == Turn("user", <<TextPart(chatPrompt)>>)
                newMessages == Append(messages, userMessage)
            IN  /\ Len(messages) < MaxChat
                /\ messages' = newMessages
                /\ chatPrompt' = ""
                /\ chatIsLoading' = TRUE
                /\ sends' = Send(sends, [newMessages |-> newMessages,
                                         body |-> [model    |-> selectedModel,
                                                   size     |-> resolution,
                                                   messages |-> PayloadOf(messages, newMessages)]])
    /\ toast' = <<>>
    /\ telemetry' = <<>>
    /\ UNCHANGED <<kafkaVars, homeVars, galleryVars, selectedModel, resolution>>

\* the answers of the edit endpoint: 2xx with image_base64 and mime_type,
\* 2xx with image_base64 only, 2xx without image_base64, a failure
ChatOutcomes == {"image", "image-nomime", "noimage", "fail"}

\* data.image_base64 and data.mime_type of an answer
ChatData(outcome) ==
    [image_base64 |-> IF outcome \in {"image", "image-nomime"} THEN "A" ELSE "",
     mime_type    |-> IF outcome = "image" THEN "image/jpeg" ELSE ""]

\* setMessages([...newMessages, assistantMessage])
NextMessages(newMessages, assistantMessage) == Append(newMessages, assistantMessage)

\* (mutant) an answer without image_base64 is taken as an empty image
Malformed_Accepted(data) == FALSE

\* if (!data.image_base64) throw
Malformed(data) == data.image_base64 = ""

\* the rest of handleSendMessage: try after the await, catch, finally
ChatResponseOf(s, outcome) ==
    LET data == ChatData(outcome)
        assistantMessage ==
            Turn("assistant",
                 <<ImagePart(data.image_base64,
                             IF data.mime_type # "" THEN data.mime_type ELSE "image/png")>>)
    IN  /\ s \in BagToSet(sends)
        /\ sends' = Take(sends, s)
        /\ IF outcome = "fail" \/ Malformed(data)
           THEN /\ toast' = <<Toast("Generation Failed")>>
                /\ UNCHANGED messages
           ELSE /\ toast' = <<>>
                /\ messages' = NextMessages(s.newMessages, assistantMessage)
        /\ chatIsLoading' = FALSE
        /\ telemetry' = <<>>
        /\ UNCHANGED <<kafkaVars, homeVars, galleryVars, chatPrompt, selectedModel, resolution>>

ChatResponse == \E s \in BagToSet(sends) : \E outcome \in ChatOutcomes : ChatResponseOf(s, outcome)

\* handleClearChat
HandleClearChat ==
    /\ messages' = <<>>
    /\ chatPrompt' = ""
    /\ toast' = <<>>
    /\ telemetry' = <<>>
    /\ UNCHANGED <<kafkaVars, homeVars, galleryVars, chatIsLoading, selectedModel,
                   resolution, sends>>

ChatNext ==
    \/ SetChatPrompt
    \/ SelectModel
    \/ SelectResolution
    \/ HandleSendMessage
    \/ ChatResponse
    \/ HandleClearChat

\* =========================================================================
\*                     properties of the gallery screen
\* =========================================================================
\* C8: the pending selection never holds more than 10 files, holds image
\* files only, and isSelected tells whether it is non-empty.
C8_SelectionValid ==
    /\ Len(selectedFiles) <= 10
    /\ \A i \in 1..Len(selectedFiles) : selectedFiles[i].type.major = "image"
    /\ isSelected <=> (Len(selectedFiles) > 0)

\* a full selection is pending after a batch has been uploaded
C8_Witness ==
    /\ Len(selectedFiles) = 10
    /\ isSelected
    /\ fileUploadKey > 0

CountTitle(toasts, title) == Cardinality({i \in 1..Len(toasts) : toasts[i].title = title})

\* C9: a selection event of more than 10 files empties the pending
\* selection and raises exactly the "Too Many Files" notification.
C9_TooManyRejected ==
    (picked.event /\ Len(picked.files) > 10) =>
        /\ selectedFiles = <<>>
        /\ ~isSelected
        /\ Len(toast) = 1
        /\ CountTitle(toast, "Too Many Files") = 1

\* 11 image files were picked during an upload batch that took a selection
C9_Witness ==
    /\ picked.event
    /\ Len(picked.files) = 11
    /\ \A i \in 1..11 : picked.files[i].type.major = "image"
    /\ CountTitle(toast, "Too Many Files") = 1
    /\ selectedFiles = <<>>
    /\ upload.active

\* the place in files of the k-th image file
NthImage(files, k) ==
    CHOOSE i \in 1..Len(files) :
        /\ files[i].type.major = "image"
        /\ Cardinality({j \in 1..i : files[j].type.major = "image"}) = k

\* C10: a selection event of 0..10 files leaves exactly its image files
\* pending, in the event's order, whatever was pending before, and raises
\* one "Invalid File Type" notification iff it holds a non-image file.
C10_SelectionReplaced ==
    (picked.event /\ Len(picked.files) <= 10) =>
        LET files  == picked.files
            images == {i \in 1..Len(files) : files[i].type.major = "image"}
        IN  /\ Len(selectedFiles) = Cardinality(images)
            /\ \A k \in 1..Len(selectedFiles) : selectedFiles[k] = files[NthImage(files, k)]
            /\ CountTitle(toast, "Invalid File Type") =
                  IF Cardinality(images) < Len(files) THEN 1 ELSE 0

\* three images were kept of a pick of three images and two other files
C10_Witness ==
    /\ picked.event
    /\ Len(picked.files) = 5
    /\ Len(selectedFiles) = 3
    /\ selectedFiles[1].name = 2
    /\ selectedFiles[3].name = 5
    /\ CountTitle(toast, "Invalid File Type") = 1
    /\ CountTitle(toast, "Files Selected") = 1

\* the results of the running batch once the answer for place i is `outcome`
ResultsWith(i, outcome) ==
    Append(upload.results, [file |-> upload.files[i].name, status |-> outcome])

\* C11: the add_image requests of a batch go out one at a time in selection
\* order: the only request of the batch in flight is the one of the file
\* after those that already have a result.
C11_OneRequestAtATime ==
    /\ upload.pending = IF upload.active THEN {Len(upload.results) + 1} ELSE {}
    /\ upload.active => Len(upload.results) < Len(upload.files)
    /\ \A k \in 1..Len(upload.results) : upload.results[k].file = upload.files[k].name

\* the first file of a batch of two has its result, the second is in flight
C11_Witness ==
    /\ upload.active
    /\ Len(upload.files) = 2
    /\ Len(upload.results) = 1
    /\ upload.pending = {2}

\* C12: every file of a batch gets one attempt, whatever happened to the
\* files before it: an answer is always the one of the next file without a
\* result, the batch goes on until every file has a result, each result is
\* success, questionable or error, and the counts of the summary are the
\* numbers of files with each result and add up to the size of the batch.
C12_EveryFileTriedOnce ==
    [][\A i \in upload.pending : \A outcome \in UploadOutcomes :
          UploadResponseOf(i, outcome) =>
              LET results == ResultsWith(i, outcome)
                  counts  == <<CountOf(results, "success"), CountOf(results, "error"),
                               CountOf(results, "questionable")>>
              IN  /\ i = Len(upload.results) + 1
                  /\ upload'.active <=> (Len(results) < Len(upload.files))
                  /\ upload'.active => upload'.results = results
                  /\ counts[1] + counts[2] + counts[3] = Len(results)
                  /\ ~upload'.active =>
                        \A t \in 1..Len(toast') :
                            toast'[t].title = "Upload Results" =>
                                /\ toast'[t].counts = counts
                                /\ counts[1] + counts[2] + counts[3] = Len(upload.files)]_vars

\* a batch of two files ended, the first had failed and the second succeeded
C12_Witness ==
    /\ ~upload.active
    /\ fileUploadKey = 1
    /\ toast = <<SummaryToast(1, 1, 0)>>
    /\ telemetry = <<ActionReport("image_upload_completed")>>

BatchOver ==
    /\ ~upload.active
    /\ selectedFiles = <<>>
    /\ ~isSelected
    /\ ~homeIsLoading

\* C13: a batch that was started ends, and ends with the selection empty,
\* isSelected false and the loading flag false; onFileUpload with an empty
\* selection sends nothing, raises one "Select Images" notification and
\* starts no batch.
C13_BatchEnds ==
    /\ upload.active ~> BatchOver
    /\ [](OnFileUpload(<<>>) = [started |-> FALSE, toast |-> <<Toast("Select Images")>>,
                                requests |-> {}, telemetry |-> <<>>])

\* a batch in which every file failed is over
C13_Witness ==
    /\ BatchOver
    /\ fileUploadKey = 1
    /\ toast = <<>>
    /\ telemetry = <<ErrorReport("file_upload")>>

\* C14: the step that ends a batch raises one summary notification and one
\* notification per flagged file, whatever the results.
C14_OneSummaryPerBatch ==
    [][\A i \in upload.pending : \A outcome \in UploadOutcomes :
          (UploadResponseOf(i, outcome) /\ ~upload'.active) =>
              /\ CountTitle(toast', "Upload Results") = 1
              /\ CountTitle(toast', "Questionable Content") =
                    CountOf(ResultsWith(i, outcome), "questionable")
              /\ Len(toast') = 1 + CountOf(ResultsWith(i, outcome), "questionable")]_vars

HasErrorReport(reports) == \E k \in 1..Len(reports) : reports[k].kind = "error"

\* C15: a failed upload of a file is reported to telemetry and, when its
\* batch ends, notified; a failed generation (the request failed, carried no
\* image, or the upload of the generated file failed) is notified and
\* reported to telemetry.
C15_FailuresNotifiedAndReported ==
    [][/\ \A i \in upload.pending :
             UploadResponseOf(i, "error") =>
                 /\ HasErrorReport(telemetry')
                 /\ ~upload'.active => toast' # <<>>
       /\ \A g \in BagToSet(gens) :
             (\/ GenerateResponseOf(g, "fail")
              \/ GenerateResponseOf(g, "noimage")
              \/ GenUploadResponseOf(g, 0)) =>
                 /\ toast' # <<>>
                 /\ telemetry' # <<>>]_vars

\* =========================================================================
\*                      properties of the image list
\* =========================================================================
DeleteInFlight(id) == \E d \in BagToSet(deletes) : d.id = id

\* C16: a delete answered 200, 201 or 204 raises "Delete Successful" and
\* changes the refresh trigger; answered with another status it raises
\* "Delete Warning" and leaves the trigger; failed, it raises "Delete
\* Failed"; one notification per delete.
C16_DeleteOutcome ==
    [][\A d \in BagToSet(deletes) : \A st \in DeleteStatuses :
          DeleteResponseOf(d, st) =>
              /\ Len(toast') = 1
              /\ toast'[1].title = CASE st \in {200, 201, 204} -> "Delete Successful"
                                     [] st = 0                 -> "Delete Failed"
                                     [] OTHER                  -> "Delete Warning"
              /\ isDeleteSuccessful' # isDeleteSuccessful <=> st \in {200, 201, 204}]_vars

\* C17: the delete control of a listed image is busy exactly while a delete
\* request for that image is in flight.
C17_BusyWhileDeleting ==
    \A image \in Images(allImages) :
        ButtonDisabled(DeleteButtonProps(image)) <=> DeleteInFlight(ImageId(image))

\* C18: a delete answered 200, 201 or 204 leaves the loadImages effect due:
\* a new image-list request is started after it.
C18_SuccessRefreshes ==
    [][/\ \A d \in BagToSet(deletes) : \A st \in {200, 201, 204} :
             DeleteResponseOf(d, st) => EffectPending'
       /\ (EffectPending /\ BagCardinality(loads) < MaxLoads) => ENABLED LoadImagesEffect
       /\ LoadImagesEffect => BagCardinality(loads') = BagCardinality(loads) + 1]_vars

AllKeys == {UniqueKey(image) : image \in ServerImages \cup Images(MockImages)}

\* C19: the entry of a card changes only by a toggle of that card, which
\* flips it; the entries of the other cards stay as they are.
C19_ToggleIsLocal ==
    [][/\ \A image \in Images(allImages) :
             ToggleDropdownOf(image) =>
                 IsDropdownOpen(expandedDropdowns', UniqueKey(image)) =
                     ~IsDropdownOpen(expandedDropdowns, UniqueKey(image))
       /\ \A key \in AllKeys :
             IsDropdownOpen(expandedDropdowns', key) # IsDropdownOpen(expandedDropdowns, key) =>
                 \E image \in Images(allImages) :
                     UniqueKey(image) = key /\ ToggleDropdownOf(image)]_vars

\* one card was opened, another opened and closed again, the third never touched
C19_Witness ==
    /\ DOMAIN expandedDropdowns = {"p1", "m2"}
    /\ expandedDropdowns["p1"]
    /\ ~expandedDropdowns["m2"]
    /\ ~IsDropdownOpen(expandedDropdowns, "p3")
    /\ Len(allImages) = 3

\* C20: a failed image-list request ends with isLoadingImages false; in a
\* development build and for a network-class error the list becomes the
\* two placeholder images with no notification and no telemetry error; in
\* every other case the list becomes empty, the error is reported and one
\* notification is raised, titled by the first category that matches.
C20_ListFailure ==
    [][\A error \in ListErrors :
          LoadImagesRejectedWith(error) =>
              /\ ~isLoadingImages'
              /\ IF /\ isDevelopment
                    /\ \/ error.code \in {"ERR_NETWORK", "ERR_NAME_NOT_RESOLVED", "ECONNREFUSED"}
                       \/ error.cors
                 THEN /\ Len(allImages') = 2
                      /\ allImages'[1].id = "mock-1" /\ allImages'[2].id = "mock-2"
                      /\ toast' = <<>>
                      /\ ~HasErrorReport(telemetry')
                 ELSE /\ allImages' = <<>>
                      /\ Len(toast') = 1
                      /\ toast'[1].title =
                            CASE error.code \in {"ERR_NETWORK", "ERR_NAME_NOT_RESOLVED"}
                                     -> "Network Connection Error"
                              [] error.code = "ECONNREFUSED" -> "Backend Server Unavailable"
                              [] error.code = "ERR_BAD_REQUEST" /\ error.cors
                                     -> "CORS Configuration Issue"
                              [] error.code = "ERR_BAD_REQUEST" /\ ~error.cors /\ error.status = 404
                                     -> "API Endpoint Not Found"
                              [] OTHER -> "Failed to Load Images"
                      /\ Len(telemetry') = 1
                      /\ HasErrorReport(telemetry')]_vars

\* a development build got a 404, which is not a network-class error
C20_Witness ==
    /\ isDevelopment
    /\ toast = <<Toast("API Endpoint Not Found")>>
    /\ telemetry = <<ErrorReport("image_loading")>>
    /\ allImages = <<>>
    /\ ~isLoadingImages
    /\ loads = EmptyBag

\* no image-list request is in flight and none is due
ListQuiet == loads = EmptyBag /\ ~EffectPending

NormalizedId(image) == IF image.id # "undefined" THEN image.id ELSE image.oid

\* C27: for every listed record the id of the delete request, the value the
\* busy flag is compared with and the key of the expand state are its flat
\* id, or else its nested id; different records have different keys; no
\* delete request and no busy flag carries an undefined identifier.
C27_OneNormalizedId ==
    /\ \A image \in Images(allImages) :
          /\ NormalizedId(image) # "undefined"
          /\ ImageId(image) = NormalizedId(image)
          /\ UniqueKey(image) = NormalizedId(image)
          /\ DeleteButtonProps(image).loading <=> deletingImageId = NormalizedId(image)
          /\ \A other \in Images(allImages) :
                other # image => UniqueKey(other) # UniqueKey(image)
    /\ \A d \in BagToSet(deletes) :
          d.id \in {NormalizedId(image) : image \in ServerImages \cup Images(MockImages)}
    /\ deletingImageId # "undefined"

\* the record with the nested id is being deleted
C27_Witness ==
    /\ deletingImageId = "m2"
    /\ \E d \in BagToSet(deletes) : d.id = "m2"
    /\ \E image \in Images(allImages) : image.id = "undefined" /\ image.oid = "m2"

\* C21: once the user has selected a backend and every image-list request
\* has completed, the "activeBackend" key holds the active backend.
C21_KeyHoldsActiveBackend ==
    (ListQuiet /\ lastSelected # Null) => localStorage = activeBackend

\* C29: once every image-list request has completed, the displayed list is
\* the answer for the active backend (its list, or the empty or placeholder
\* list of a failed request), so every listed record is one the active
\* backend holds and a delete of it is sent to the backend it came from.
C29_ListIsOfActiveBackend ==
    ListQuiet =>
        /\ allImages \in {ListOf(stored[activeBackend]), <<>>, MockImages}
        /\ \A image \in Images(allImages) \ Images(MockImages) :
               image \in stored[activeBackend]

\* the two AI clients: single-shot generation and the chat
AINext ==
    \/ SetPrompt
    \/ ClickGenerate
    \/ GenerateResponse
    \/ GenUploadResponse
    \/ SetChatPrompt
    \/ HandleSendMessage
    \/ ChatResponse
    \/ HandleClearChat

\* =========================================================================
\*                      properties of the chat client
\* =========================================================================
\* C22: the body of a send is {model, size, messages} with the selected
\* model and size; messages has one entry per turn of the history with the
\* new user turn, in order, with the turn's role; a part with image data
\* is sent as {image_base64, mime_type} and any other part as {text}.
C22_RequestBody ==
    [][(HandleSendMessage /\ Trim(chatPrompt) # "") =>
          /\ messages' = Append(messages, [role |-> "user", parts |-> <<[text |-> chatPrompt]>>])
          /\ \E s \in BagToSet(sends') :
                /\ sends' = SetToBag({s})
                /\ DOMAIN s.body = {"model", "size", "messages"}
                /\ s.body.model = selectedModel
                /\ s.body.size = resolution
                /\ Len(s.body.messages) = Len(messages) + 1
                /\ \A k \in 1..Len(messages') :
                      LET turn == messages'[k]
                          sent == s.body.messages[k]
                      IN  /\ DOMAIN sent = {"role", "parts"}
                          /\ sent.role = turn.role
                          /\ Len(sent.parts) = Len(turn.parts)
                          /\ \A j \in 1..Len(turn.parts) :
                                IF "image_base64" \in DOMAIN turn.parts[j]
                                THEN /\ DOMAIN sent.parts[j] = {"image_base64", "mime_type"}
                                     /\ sent.parts[j].image_base64 = turn.parts[j].image_base64
                                     /\ sent.parts[j].mime_type = turn.parts[j].mime_type
                                ELSE /\ DOMAIN sent.parts[j] = {"text"}
                                     /\ sent.parts[j].text = turn.parts[j].text]_vars

\* the request of the third turn is in flight: user text, assistant image, user text
C22_Witness ==
    \E s \in BagToSet(sends) :
        /\ Len(s.body.messages) = 3
        /\ s.body.messages[1] = [role |-> "user", parts |-> <<[text |-> "a city"]>>]
        /\ s.body.messages[2].role = "assistant"
        /\ DOMAIN s.body.messages[2].parts[1] = {"image_base64", "mime_type"}
        /\ s.body.messages[3] = [role |-> "user", parts |-> <<[text |-> "make it rainy"]>>]

IsPrefix(a, b) == Len(a) <= Len(b) /\ \A k \in 1..Len(a) : a[k] = b[k]

\* C23: a clear empties the history; an empty history gets its next turn
\* from a send only; every change that is not a clear appends turns to the
\* history there is.
C23_AppendOnlyUntilCleared ==
    [][/\ HandleClearChat => messages' = <<>>
       /\ (messages = <<>> /\ messages' # <<>>) => HandleSendMessage
       /\ (messages' # messages /\ ~HandleClearChat) => IsPrefix(messages, messages')]_vars

\* C28: every turn of the history has role user or assistant and at least
\* one part, each part a text part or an image part with data and MIME
\* type; a send with an empty or blank prompt adds no turn and no request.
C28_TurnsWellFormed ==
    [][/\ \A k \in 1..Len(messages') :
             /\ messages'[k].role \in {"user", "assistant"}
             /\ Len(messages'[k].parts) >= 1
             /\ \A j \in 1..Len(messages'[k].parts) :
                   LET part == messages'[k].parts[j]
                   IN  \/ DOMAIN part = {"text"} /\ part.text \notin {"", " "}
                       \/ /\ DOMAIN part = {"image_base64", "mime_type"}
                          /\ part.image_base64 # ""
                          /\ part.mime_type # ""
       /\ (HandleSendMessage /\ chatPrompt \in {"", " "}) =>
             messages' = messages /\ sends' = sends]_vars

\* blanks are in the input field of a conversation with both kinds of turn
C28_Witness ==
    /\ chatPrompt = " "
    /\ ~chatIsLoading
    /\ Len(messages) = 2
    /\ messages[1].role = "user"
    /\ messages[2] = [role |-> "assistant",
                      parts |-> <<[image_base64 |-> "A", mime_type |-> "image/png"]>>]

\* C25: a generation clears the prompt and toggles the refresh trigger when
\* the generation answered with image data and the upload answered 200 or
\* 201, and only then: an empty prompt, a failed generation and a failed
\* upload leave both; every completed attempt leaves isGenerating false.
C25_ClearAndRefreshOnlyOnSuccess ==
    [][/\ (ClickGenerate /\ prompt = "") =>
             prompt' = prompt /\ isUploadSuccessful' = isUploadSuccessful /\ gens' = gens
       /\ \A g \in BagToSet(gens) :
             /\ \A outcome \in GenerateOutcomes :
                   GenerateResponseOf(g, outcome) =>
                       /\ prompt' = prompt
                       /\ isUploadSuccessful' = isUploadSuccessful
                       /\ outcome # "image" => ~isGenerating' /\ gens' = Take(gens, g)
             /\ \A st \in GenUploadStatuses :
                   GenUploadResponseOf(g, st) =>
                       /\ ~isGenerating'
                       /\ IF st \in {200, 201}
                          THEN prompt' = "" /\ isUploadSuccessful' = ~g.flag
                          ELSE prompt' = prompt /\ isUploadSuccessful' = isUploadSuccessful]_vars

\* a generated image was uploaded: prompt cleared, trigger toggled
C25_Witness ==
    /\ toast = <<Toast("Success")>>
    /\ prompt = ""
    /\ isUploadSuccessful
    /\ ~isGenerating
    /\ gens = EmptyBag

\* C24: a 2xx answer without image_base64 is an error in both clients: a
\* "Generation Failed" notification and the loading flag cleared; the
\* single-shot client sends no upload, keeps the prompt and the refresh
\* trigger; the chat client appends no assistant turn.
C24_MalformedSuccessIsError ==
    [][/\ \A g \in BagToSet(gens) :
             GenerateResponseOf(g, "noimage") =>
                 /\ toast' = <<Toast("Generation Failed")>>
                 /\ ~isGenerating'
                 /\ gens' = Take(gens, g)
                 /\ prompt' = prompt
                 /\ isUploadSuccessful' = isUploadSuccessful
       /\ \A s \in BagToSet(sends) :
             ChatResponseOf(s, "noimage") =>
                 /\ toast' = <<Toast("Generation Failed")>>
                 /\ ~chatIsLoading'
                 /\ messages' = messages]_vars

\* the chat got an answer it rejected: the user's turn is the last one
C24_Witness ==
    /\ toast = <<Toast("Generation Failed")>>
    /\ ~chatIsLoading
    /\ sends = EmptyBag
    /\ Len(messages) = 3
    /\ messages[3].role = "user"
    /\ gens = EmptyBag

\* =========================================================================
\*                            specifications
\* =========================================================================
\* the panel shows the state of the service
Synced == status = ServerStatus(srv) /\ faultConfig = srv.fault

Init == KafkaInit /\ HomeInit /\ GalleryInit /\ ChatInit /\ toast = <<>> /\ telemetry = <<>>

\* the streaming-demo panel and the service
Spec == Init /\ [][KafkaNext]_vars

\* the streaming-demo panel that stays mounted, with a fair timer, a fair
\* service and fair delivery of the responses
SpecPollLive == Init /\ [][PollNext]_vars /\ PollFairness

\* the gallery screen
InitHome == Init /\ srv = [running |-> FALSE, fault |-> InitialFaultConfig]

SpecHome == InitHome /\ [][HomeNext]_vars

\* selection and upload, when every add_image request is answered or fails
SpecUploadLive == InitHome /\ [][UploadNext]_vars /\ WF_vars(UploadResponse)

\* the image list of the gallery screen, in either build
InitGallery ==
    /\ KafkaInit /\ srv = [running |-> FALSE, fault |-> InitialFaultConfig]
    /\ HomeInit /\ GalleryFresh /\ ChatInit
    /\ \E set \in SUBSET ServerImages :
           stored = [b \in Backends |-> IF b = DefaultBackend THEN set ELSE OtherOf(set)]
    /\ isDevelopment \in BOOLEAN
    /\ localStorage = Null
    /\ activeBackend = RestoredBackend(localStorage)
    /\ toast = <<>> /\ telemetry = <<>>

SpecGallery == InitGallery /\ [][GalleryNext]_vars

\* the cards of the image list
SpecDropdowns == InitGallery /\ [][DropdownNext]_vars

\* a visit that starts with any value under the "activeBackend" key
InitBackend ==
    /\ KafkaInit /\ srv = [running |-> FALSE, fault |-> InitialFaultConfig]
    /\ HomeInit /\ GalleryFresh /\ ChatInit
    /\ \E set \in SUBSET ServerImages :
           stored = [b \in Backends |-> IF b = DefaultBackend THEN set ELSE OtherOf(set)]
    /\ isDevelopment \in BOOLEAN
    /\ localStorage \in Backends \cup {Null}
    /\ activeBackend = RestoredBackend(localStorage)
    /\ toast = <<>> /\ telemetry = <<>>

\* the image list and the backend selection
SpecBackend == InitBackend /\ [][BackendNext]_vars

\* the image list and the 'throw error' action of its cards
SpecErrors == InitGallery /\ [][ErrorNext]_vars

\* the chat client
SpecChat == InitHome /\ [][ChatNext]_vars

\* single-shot generation and the chat side by side
SpecAI == InitHome /\ [][AINext]_vars

====
